---- MODULE Spec2Model ----
(***************************************************************************)
(* The client-side CRUD controller of the users application, in its two    *)
(* renderings: the web client (frontend/src/App.tsx) and the mobile client *)
(* (mobile/app/index.tsx).  Each client owns the React state users,        *)
(* formData, editingId, loading and error, and runs the asynchronous       *)
(* handlers loadUsers, handleCreate, handleUpdate and handleDelete against *)
(* the REST backend.  A handler is modelled as an operation record that    *)
(* lives in ops from its first request until its continuation has run.     *)
(***************************************************************************)
EXTENDS Integers, Sequences, FiniteSets, TLC

(***************************************************************************)
(* Bounds of the model.                                                    *)
(***************************************************************************)
\* Identifiers are at most MaxId; no create is submitted once the server has
\* none left to assign.
MaxId == 2

\* A session starts at most MaxCalls create, update and delete operations.
MaxCalls == 2

\* With both clients running, they start at most MaxCallsBoth create, update
\* and delete operations between them.
MaxCallsBoth == 1

\* A client has at most MaxInFlight handler invocations pending at a time
\* (a handler starts while loading is false, which it is only before the
\* first start and after a handler has ended: the clients never exceed two).
MaxInFlight == 2

(***************************************************************************)
(* Values.                                                                 *)
(***************************************************************************)
Clients == {"web", "mobile"}

\* JS null for editingId (identifiers are numbers).
Null == -1

\* JS null for the error slot (messages are strings).
NoError == "null"

\* Strings are sequences of characters, so that trim() has something to do.
Space == " "
EmptyStr == << >>

\* What is typed into the name input: nothing, a blank, a name.
Names == { << >>, << " " >>, << "b" >> }

\* A well-formed address, as the browser judges it.
Address == << "x", "@", "y" >>

\* What is typed into the email input: nothing, text that is no address, an
\* address.
Emails == { << >>, << "x" >>, Address }

EmptyForm == [name |-> EmptyStr, email |-> EmptyStr]

\* Messages thrown by the API client, and the messages of the errors that
\* fetch() and res.json() raise themselves.
MsgFetchUsers == "Failed to fetch users"
MsgCreate == "Failed to create user"
MsgUpdate == "Failed to update user"
MsgDelete == "Failed to delete user"
MsgNetwork == "TypeError: network request failed"
MsgJson == "SyntaxError: body is not JSON"

\* String.prototype.trim: leading and trailing whitespace removed.
RECURSIVE TrimLeft(_)
TrimLeft(s) ==
    IF s = << >> THEN s
    ELSE IF Head(s) = Space THEN TrimLeft(Tail(s)) ELSE s

RECURSIVE TrimRight(_)
TrimRight(s) ==
    IF s = << >> THEN s
    ELSE IF s[Len(s)] = Space THEN TrimRight(SubSeq(s, 1, Len(s) - 1)) ELSE s

trim(s) == TrimRight(TrimLeft(s))

\* JS truthiness of editingId (number | null): null and 0 are falsy.
Truthy(id) == id # Null /\ id # 0

(***************************************************************************)
(* The backend (backend/routers/users.py, backend/database.py): an ordered *)
(* collection with server-assigned, increasing identifiers.                *)
(***************************************************************************)
FirstId == 1

SeedUser == [id |-> FirstId, name |-> << "a" >>, email |-> Address]

\* The collection the server holds when a client starts.
InitialDbs == { << SeedUser >> }

\* A record whose identifier is the number zero, and a server that holds it
\* when a client starts.
ZeroUser == [id |-> 0, name |-> << "a" >>, email |-> Address]

ZeroDbs == { << ZeroUser >> }

\* The identifiers a record can have.
IdSpace == 0..MaxId

Ids(list) == { list[i].id : i \in DOMAIN list }

HasId(list, id) == \E i \in DOMAIN list : list[i].id = id

RECURSIVE Without(_, _)
Without(list, id) ==
    IF list = << >> THEN << >>
    ELSE IF Head(list).id = id THEN Without(Tail(list), id)
         ELSE << Head(list) >> \o Without(Tail(list), id)

Replaced(list, id, data) ==
    [i \in DOMAIN list |->
        IF list[i].id = id
        THEN [id |-> id, name |-> data.name, email |-> data.email]
        ELSE list[i]]

NoBody == << >>

\* A response: 2xx or not, whether the body parses as JSON, and the parsed body.
Response(ok, json, body) == [ok |-> ok, json |-> json, body |-> body]

NoResp == [ok |-> FALSE, json |-> FALSE, body |-> NoBody]

\* GET /api/users/
ServeList(d) == Response(TRUE, TRUE, d)

\* POST /api/users/
ServeCreate(d, nid, data) ==
    [db |-> Append(d, [id |-> nid, name |-> data.name, email |-> data.email]),
     nextId |-> nid + 1,
     resp |-> Response(TRUE, TRUE,
                 << [id |-> nid, name |-> data.name, email |-> data.email] >>)]

\* PUT /api/users/{id}
ServeUpdate(d, nid, id, data) ==
    IF HasId(d, id)
    THEN [db |-> Replaced(d, id, data), nextId |-> nid,
          resp |-> Response(TRUE, TRUE,
                 << [id |-> id, name |-> data.name, email |-> data.email] >>)]
    ELSE [db |-> d, nextId |-> nid, resp |-> Response(FALSE, TRUE, NoBody)]

\* DELETE /api/users/{id}
ServeDelete(d, nid, id) ==
    IF HasId(d, id)
    THEN [db |-> Without(d, id), nextId |-> nid,
          resp |-> Response(TRUE, FALSE, NoBody)]
    ELSE [db |-> d, nextId |-> nid, resp |-> Response(FALSE, TRUE, NoBody)]

(***************************************************************************)
(* The API client (api/users.ts of each client): the outcome of a call     *)
(* for a given response, as the value returned or the message thrown.      *)
(***************************************************************************)
Returned(data) == [ok |-> TRUE, msg |-> NoError, data |-> data]

Thrown(msg) == [ok |-> FALSE, msg |-> msg, data |-> NoBody]

getUsers(c, resp) ==
    IF ~resp.ok THEN Thrown(MsgFetchUsers)
    ELSE IF ~resp.json THEN Thrown(MsgJson)
    ELSE Returned(resp.body)

\* The web client parses the body before it looks at res.ok.
createUser(c, resp) ==
    IF c = "web"
    THEN IF ~resp.json THEN Thrown(MsgJson)
         ELSE IF ~resp.ok THEN Thrown(MsgCreate)
         ELSE Returned(resp.body)
    ELSE IF ~resp.ok THEN Thrown(MsgCreate)
         ELSE IF ~resp.json THEN Thrown(MsgJson)
         ELSE Returned(resp.body)

updateUser(c, resp) ==
    IF ~resp.ok THEN Thrown(MsgUpdate)
    ELSE IF ~resp.json THEN Thrown(MsgJson)
    ELSE Returned(resp.body)

deleteUser(c, resp) ==
    IF ~resp.ok THEN Thrown(MsgDelete)
    ELSE Returned(NoBody)

ApiResult(c, op) ==
    IF op.phase = "list" THEN getUsers(c, op.resp)
    ELSE IF op.kind = "create" THEN createUser(c, op.resp)
    ELSE IF op.kind = "update" THEN updateUser(c, op.resp)
    ELSE deleteUser(c, op.resp)

(***************************************************************************)
(* State.                                                                  *)
(***************************************************************************)
VARIABLES
    pc,         \* per client: "off", "new" (rendered, effect not yet run),
                \* "strict" (StrictMode is about to run the effect again), "ready"
    users,      \* per client: useState<User[]>
    formData,   \* per client: useState<UserCreate>
    editingId,  \* per client: useState<number | null>
    loading,    \* per client: useState(false)
    error,      \* per client: useState<string | null>
    ops,        \* per client: the handler invocations that await a response
    modal,      \* per client: the native Alert.alert dialog on screen (mobile)
    db,         \* server: the collection, in insertion order
    nextId,     \* server: the next identifier to assign
    calls,      \* per client: the mutations started so far in this session
    ev          \* what the last step was (history, read by no action)

vars == << pc, users, formData, editingId, loading, error, ops, modal, db, nextId, calls, ev >>

\* What the outcome of a handler is compared with: the cache and the form
\* when it was called.
Held(c) == [users |-> users[c], formData |-> formData[c], editingId |-> editingId[c]]

NoModal == [kind |-> "none", id |-> Null, msg |-> NoError]

Mutations == {"create", "update", "delete"}

\* The HTTP method of the first request a handler sends.
Method(kind) ==
    IF kind = "load" THEN "GET"
    ELSE IF kind = "create" THEN "POST"
    ELSE IF kind = "update" THEN "PUT" ELSE "DELETE"

\* One handler invocation: which handler, whether it awaits its mutation
\* ("mut") or a list ("list"), its arguments, the state of its request, the
\* requests it has issued so far, the client state when it was called and the
\* server collection its mutation was applied to.
NewOp(c, kind, id, data) ==
    [kind |-> kind,
     phase |-> IF kind = "load" THEN "list" ELSE "mut",
     id |-> id, data |-> data,
     net |-> "sent", resp |-> NoResp,
     reqs |-> << Method(kind) >>,
     pre |-> Held(c),
     applied |-> FALSE, dbAt |-> << >>]

\* The last step, when it ended an operation: the kind of operation and how
\* it ended ("ok", "mutfail" when the mutation threw, "listfail" when the
\* list did); when it left edit mode: "cancel".
Event(type, kind, out) == [type |-> type, kind |-> kind, out |-> out]

NoEvent == Event("none", "none", "none")

RemoveAt(s, i) == SubSeq(s, 1, i - 1) \o SubSeq(s, i + 1, Len(s))

PendingCreates ==
    Cardinality({ << c, i >> \in Clients \X (1..MaxInFlight) :
                    /\ i \in DOMAIN ops[c]
                    /\ ops[c][i].kind = "create"
                    /\ ops[c][i].phase = "mut"
                    /\ ops[c][i].net = "sent" })

\* Identifiers are left for one more create.
IdsLeft == nextId + PendingCreates <= MaxId

\* The clients as they are constructed: one of them is started.
InitClients ==
    /\ \E c \in Clients : pc = [d \in Clients |-> IF d = c THEN "new" ELSE "off"]
    /\ users = [c \in Clients |-> << >>]
    /\ formData = [c \in Clients |-> EmptyForm]
    /\ editingId = [c \in Clients |-> Null]
    /\ loading = [c \in Clients |-> FALSE]
    /\ error = [c \in Clients |-> NoError]
    /\ ops = [c \in Clients |-> << >>]
    /\ modal = [c \in Clients |-> NoModal]
    /\ calls = [c \in Clients |-> 0]
    /\ ev = NoEvent

Init ==
    /\ InitClients
    /\ db \in InitialDbs
    /\ nextId = FirstId + Len(db)

\* The same clients against a server whose collection holds the record with
\* identifier zero.
InitZero ==
    /\ InitClients
    /\ db \in ZeroDbs
    /\ nextId = FirstId + Len(db)

(***************************************************************************)
(* loadUsers and the mount effect.                                         *)
(***************************************************************************)
\* The synchronous part of every handler's try block: setLoading(true),
\* setError(null) and the first request.
Begin(c, op) ==
    /\ Len(ops[c]) < MaxInFlight
    /\ loading' = [loading EXCEPT ![c] = TRUE]
    /\ error' = [error EXCEPT ![c] = NoError]
    /\ ops' = [ops EXCEPT ![c] = Append(@, op)]

\* The same for a create, update or delete, which the session's budget covers.
Start(c, op) ==
    /\ calls[c] < MaxCalls
    /\ Begin(c, op)
    /\ calls' = [calls EXCEPT ![c] = @ + 1]

\* loadUsers(), up to its await.
loadUsers(c) ==
    /\ Begin(c, NewOp(c, "load", Null, EmptyForm))
    /\ ev' = NoEvent
    /\ UNCHANGED << users, formData, editingId, modal, db, nextId, calls >>

\* React.StrictMode (main.tsx) runs a mount effect twice in a development
\* build and once in a production build; the mobile root has no StrictMode.
StrictRuns(c) == IF c = "web" THEN {FALSE, TRUE} ELSE {FALSE}

\* useEffect(() => { loadUsers(); }, [])
MountEffect(c) ==
    /\ pc[c] = "new"
    /\ loadUsers(c)
    /\ \E again \in StrictRuns(c) :
          pc' = [pc EXCEPT ![c] = IF again THEN "strict" ELSE "ready"]

StrictRemount(c) ==
    /\ pc[c] = "strict"
    /\ loadUsers(c)
    /\ pc' = [pc EXCEPT ![c] = "ready"]

(***************************************************************************)
(* The server handles a request; the response (or a transport error)       *)
(* reaches the handler that awaits it.                                     *)
(***************************************************************************)
Serve(op) ==
    IF op.phase = "list"
    THEN [db |-> db, nextId |-> nextId, resp |-> ServeList(db)]
    ELSE IF op.kind = "create" THEN ServeCreate(db, nextId, op.data)
    ELSE IF op.kind = "update" THEN ServeUpdate(db, nextId, op.id, op.data)
    ELSE ServeDelete(db, nextId, op.id)

\* The server handles a request and answers 2xx; the response is under way.
ServerHandle(c, i) ==
    /\ pc[c] = "ready"
    /\ i \in DOMAIN ops[c]
    /\ ops[c][i].net = "sent"
    /\ LET out == Serve(ops[c][i]) IN
          /\ out.resp.ok
          /\ db' = out.db
          /\ nextId' = out.nextId
          /\ ops' = [ops EXCEPT ![c][i] =
                        IF @.phase = "mut"
                        THEN [@ EXCEPT !.net = "resp", !.resp = out.resp,
                                       !.applied = TRUE, !.dbAt = db]
                        ELSE [@ EXCEPT !.net = "resp", !.resp = out.resp]]
    /\ ev' = NoEvent
    /\ UNCHANGED << pc, users, formData, editingId, loading, error, modal, calls >>

\* Alert.alert("Error", message) in the catch blocks of the mobile client.
ErrorAlert(c, msg) ==
    IF c = "mobile" THEN [kind |-> "error", id |-> Null, msg |-> msg] ELSE modal[c]

\* A loadUsers whose catch block would also empty the list.
ListSettledClears(c, i, op, r) ==
    /\ users' = [users EXCEPT ![c] = IF r.ok THEN r.data ELSE << >>]
    /\ error' = [error EXCEPT ![c] = IF r.ok THEN @ ELSE r.msg]
    /\ modal' = [modal EXCEPT ![c] = IF r.ok THEN @ ELSE ErrorAlert(c, r.msg)]
    /\ loading' = [loading EXCEPT ![c] = FALSE]
    /\ ops' = [ops EXCEPT ![c] = RemoveAt(@, i)]
    /\ ev' = Event("end", op.kind, IF r.ok THEN "ok" ELSE "listfail")
    /\ UNCHANGED << formData, editingId >>

\* A loadUsers that would put the list it receives into a store that the
\* clients share.
ListSettledShared(c, i, op, r) ==
    /\ users' = [d \in Clients |-> IF r.ok THEN r.data ELSE users[d]]
    /\ error' = [error EXCEPT ![c] = IF r.ok THEN @ ELSE r.msg]
    /\ modal' = [modal EXCEPT ![c] = IF r.ok THEN @ ELSE ErrorAlert(c, r.msg)]
    /\ loading' = [loading EXCEPT ![c] = FALSE]
    /\ ops' = [ops EXCEPT ![c] = RemoveAt(@, i)]
    /\ ev' = Event("end", op.kind, IF r.ok THEN "ok" ELSE "listfail")
    /\ UNCHANGED << formData, editingId >>

\* A loadUsers that would add the list it receives to the one it has.
ListSettledMerges(c, i, op, r) ==
    /\ users' = [users EXCEPT ![c] = IF r.ok THEN @ \o r.data ELSE @]
    /\ error' = [error EXCEPT ![c] = IF r.ok THEN @ ELSE r.msg]
    /\ modal' = [modal EXCEPT ![c] = IF r.ok THEN @ ELSE ErrorAlert(c, r.msg)]
    /\ loading' = [loading EXCEPT ![c] = FALSE]
    /\ ops' = [ops EXCEPT ![c] = RemoveAt(@, i)]
    /\ ev' = Event("end", op.kind, IF r.ok THEN "ok" ELSE "listfail")
    /\ UNCHANGED << formData, editingId >>

\* loadUsers after its await: setUsers(data) or the catch block, then the
\* finally block (and that of the handler that called loadUsers, if one did).
ListSettled(c, i, op, r) ==
    /\ users' = [users EXCEPT ![c] = IF r.ok THEN r.data ELSE @]
    /\ error' = [error EXCEPT ![c] = IF r.ok THEN @ ELSE r.msg]
    /\ modal' = [modal EXCEPT ![c] = IF r.ok THEN @ ELSE ErrorAlert(c, r.msg)]
    /\ loading' = [loading EXCEPT ![c] = FALSE]
    /\ ops' = [ops EXCEPT ![c] = RemoveAt(@, i)]
    /\ ev' = Event("end", op.kind, IF r.ok THEN "ok" ELSE "listfail")
    /\ UNCHANGED << formData, editingId >>

\* A handler that would end after its mutation without calling loadUsers().
MutationReturnedNoReload(c, i, op) ==
    /\ formData' = [formData EXCEPT ![c] =
                       IF op.kind \in {"create", "update"} THEN EmptyForm ELSE @]
    /\ editingId' = [editingId EXCEPT ![c] = IF op.kind = "update" THEN Null ELSE @]
    /\ loading' = [loading EXCEPT ![c] = FALSE]
    /\ ops' = [ops EXCEPT ![c] = RemoveAt(@, i)]
    /\ ev' = Event("end", op.kind, "ok")
    /\ UNCHANGED << users, error, modal >>

\* A handler after its mutation has returned: the form is reset (create,
\* update), then loadUsers() runs up to its await.
MutationReturned(c, i, op) ==
    /\ formData' = [formData EXCEPT ![c] =
                       IF op.kind \in {"create", "update"} THEN EmptyForm ELSE @]
    /\ editingId' = [editingId EXCEPT ![c] = IF op.kind = "update" THEN Null ELSE @]
    /\ loading' = [loading EXCEPT ![c] = TRUE]
    /\ error' = [error EXCEPT ![c] = NoError]
    /\ ops' = [ops EXCEPT ![c][i] =
                   [op EXCEPT !.phase = "list", !.net = "sent", !.resp = NoResp,
                              !.reqs = Append(@, "GET")]]
    /\ ev' = NoEvent
    /\ UNCHANGED << users, modal >>

\* The fixed message of the request a handler invocation awaits.
Label(op) ==
    IF op.phase = "list" THEN MsgFetchUsers
    ELSE IF op.kind = "create" THEN MsgCreate
    ELSE IF op.kind = "update" THEN MsgUpdate
    ELSE MsgDelete

\* A catch block that would show the fixed message whatever was thrown.
MutationThrewLabel(c, i, op, r) ==
    /\ error' = [error EXCEPT ![c] = Label(op)]
    /\ modal' = [modal EXCEPT ![c] = ErrorAlert(c, Label(op))]
    /\ loading' = [loading EXCEPT ![c] = FALSE]
    /\ ops' = [ops EXCEPT ![c] = RemoveAt(@, i)]
    /\ ev' = Event("end", op.kind, "mutfail")
    /\ UNCHANGED << users, formData, editingId >>

\* A catch block that would send the failed request again.
MutationThrewRetries(c, i, op, r) ==
    /\ error' = [error EXCEPT ![c] = r.msg]
    /\ ops' = [ops EXCEPT ![c][i] = [op EXCEPT !.net = "sent", !.resp = NoResp]]
    /\ ev' = NoEvent
    /\ UNCHANGED << users, formData, editingId, loading, modal >>

\* A handler whose mutation has thrown: the catch block, the finally block.
MutationThrew(c, i, op, r) ==
    /\ error' = [error EXCEPT ![c] = r.msg]
    /\ modal' = [modal EXCEPT ![c] = ErrorAlert(c, r.msg)]
    /\ loading' = [loading EXCEPT ![c] = FALSE]
    /\ ops' = [ops EXCEPT ![c] = RemoveAt(@, i)]
    /\ ev' = Event("end", op.kind, "mutfail")
    /\ UNCHANGED << users, formData, editingId >>

\* The rest of the handler invocation op, the i-th pending one, once its
\* awaited API call has returned or thrown r.
Settle(c, i, op, r) ==
    IF op.phase = "list" THEN ListSettled(c, i, op, r)
    ELSE IF r.ok THEN MutationReturned(c, i, op)
    ELSE MutationThrew(c, i, op, r)

\* A 2xx response arrives.
Deliver(c, i) ==
    /\ pc[c] = "ready"
    /\ i \in DOMAIN ops[c]
    /\ ops[c][i].net = "resp"
    /\ Settle(c, i, ops[c][i], ApiResult(c, ops[c][i]))
    /\ UNCHANGED << pc, db, nextId, calls >>

\* A request is answered with a non-2xx status and a body that is JSON or
\* not: by the server when the identifier is unknown, by the server or
\* something before it for any other reason.  The collection stays as it is,
\* so the answer and its arrival are one step.
Refuse(c, i, json) ==
    /\ pc[c] = "ready"
    /\ i \in DOMAIN ops[c]
    /\ ops[c][i].net = "sent"
    /\ LET op == [ops[c][i] EXCEPT !.net = "resp", !.resp = Response(FALSE, json, NoBody)]
       IN Settle(c, i, op, ApiResult(c, op))
    /\ UNCHANGED << pc, db, nextId, calls >>

\* fetch() itself rejects: the request never arrived, or its response was lost.
TransportFail(c, i) ==
    /\ pc[c] = "ready"
    /\ i \in DOMAIN ops[c]
    /\ Settle(c, i, ops[c][i], Thrown(MsgNetwork))
    /\ UNCHANGED << pc, db, nextId, calls >>

(***************************************************************************)
(* User intents, as the components UserForm and UserList forward them.     *)
(***************************************************************************)
\* The controls are rendered with disabled={loading}; a native alert is
\* modal and covers them while it is on screen.
Enabled(c) ==
    /\ pc[c] = "ready"
    /\ ~loading[c]
    /\ modal[c].kind = "none"

\* onChange / onChangeText: setFormData({ ...formData, name: text })
SetName(c, v) ==
    /\ Enabled(c)
    /\ formData[c].name # v
    /\ formData' = [formData EXCEPT ![c].name = v]
    /\ ev' = NoEvent
    /\ UNCHANGED << pc, users, editingId, loading, error, ops, modal, db, nextId, calls >>

SetEmail(c, v) ==
    /\ Enabled(c)
    /\ formData[c].email # v
    /\ formData' = [formData EXCEPT ![c].email = v]
    /\ ev' = NoEvent
    /\ UNCHANGED << pc, users, editingId, loading, error, ops, modal, db, nextId, calls >>

\* The validation at the top of the mobile handlers:
\* !formData.name.trim() || !formData.email.trim()
InvalidDraft(d) == trim(d.name) = EmptyStr \/ trim(d.email) = EmptyStr

\* The web handlers have no such test.
Rejects(c, d) == IF c = "mobile" THEN InvalidDraft(d) ELSE FALSE

\* The format check of <input type="email">: one "@" with text before and
\* after it and no space.
ValidEmail(e) ==
    \E i \in 2..(Len(e) - 1) :
        /\ e[i] = "@"
        /\ \A j \in 1..Len(e) : j # i => (e[j] # "@" /\ e[j] # Space)

\* The web form's inputs carry `required`, and the email input type="email",
\* whose value the browser strips of surrounding whitespace: the browser does
\* not raise the submit event while one of them is empty or the email is no
\* address.
RequiredOK(d) ==
    /\ d.name # EmptyStr
    /\ trim(d.email) # EmptyStr
    /\ ValidEmail(trim(d.email))

FormBlocks(c, d) == IF c = "web" THEN ~RequiredOK(d) ELSE FALSE

ValidationAlert ==
    [kind |-> "validation", id |-> Null, msg |-> "Name and email are required"]

handleCreate(c) ==
    IF Rejects(c, formData[c])
    THEN /\ modal' = [modal EXCEPT ![c] = ValidationAlert]
         /\ ev' = NoEvent
         /\ UNCHANGED << users, formData, editingId, loading, error, ops, calls >>
    ELSE /\ IdsLeft
         /\ Start(c, NewOp(c, "create", Null, formData[c]))
         /\ ev' = NoEvent
         /\ UNCHANGED << users, formData, editingId, modal >>

handleUpdate(c) ==
    IF ~Truthy(editingId[c])
    THEN /\ ev' = NoEvent
         /\ UNCHANGED << users, formData, editingId, loading, error, ops, modal, calls >>
    ELSE IF Rejects(c, formData[c])
    THEN /\ modal' = [modal EXCEPT ![c] = ValidationAlert]
         /\ ev' = NoEvent
         /\ UNCHANGED << users, formData, editingId, loading, error, ops, calls >>
    ELSE /\ Start(c, NewOp(c, "update", editingId[c], formData[c]))
         /\ ev' = NoEvent
         /\ UNCHANGED << users, formData, editingId, modal >>

\* onSubmit={editingId ? handleUpdate : handleCreate}
Submit(c) ==
    /\ Enabled(c)
    /\ ~FormBlocks(c, formData[c])
    /\ IF Truthy(editingId[c]) THEN handleUpdate(c) ELSE handleCreate(c)
    /\ UNCHANGED << pc, db, nextId >>

\* The try block of handleDelete (web), of its onPress callback (mobile).
deleteNow(c, id) ==
    /\ Start(c, NewOp(c, "delete", id, EmptyForm))
    /\ ev' = NoEvent
    /\ UNCHANGED << users, formData, editingId >>

\* The mobile handleDelete opens Alert.alert("Delete User", ...) and sends
\* the request from the onPress of its "Delete" button; the web handleDelete
\* has no such dialog.
ConfirmsFirst(c) == c = "mobile"

\* A delete button that would not be disabled while loading is true.
handleDeleteWhileLoading(c, id) ==
    /\ pc[c] = "ready"
    /\ modal[c].kind = "none"
    /\ id \in Ids(users[c])
    /\ IF ConfirmsFirst(c)
       THEN /\ modal' = [modal EXCEPT ![c] = [kind |-> "confirm", id |-> id, msg |-> NoError]]
            /\ ev' = NoEvent
            /\ UNCHANGED << users, formData, editingId, loading, error, ops, calls >>
       ELSE /\ deleteNow(c, id)
            /\ UNCHANGED modal
    /\ UNCHANGED << pc, db, nextId >>

\* onDelete(user.id): the web client deletes at once, the mobile client
\* asks first.
handleDelete(c, id) ==
    /\ Enabled(c)
    /\ id \in Ids(users[c])
    /\ IF ConfirmsFirst(c)
       THEN /\ modal' = [modal EXCEPT ![c] = [kind |-> "confirm", id |-> id, msg |-> NoError]]
            /\ ev' = NoEvent
            /\ UNCHANGED << users, formData, editingId, loading, error, ops, calls >>
       ELSE /\ deleteNow(c, id)
            /\ UNCHANGED modal
    /\ UNCHANGED << pc, db, nextId >>

\* The "Delete" button of the confirmation.
ConfirmDelete(c) ==
    /\ pc[c] = "ready"
    /\ modal[c].kind = "confirm"
    /\ deleteNow(c, modal[c].id)
    /\ modal' = [modal EXCEPT ![c] = NoModal]
    /\ UNCHANGED << pc, db, nextId >>

\* The "Cancel" button of the confirmation, the "OK" button of an alert.
CloseAlert(c) ==
    /\ pc[c] = "ready"
    /\ modal[c].kind # "none"
    /\ modal' = [modal EXCEPT ![c] = NoModal]
    /\ ev' = NoEvent
    /\ UNCHANGED << pc, users, formData, editingId, loading, error, ops, db, nextId, calls >>

\* An edit button that would hand over another identifier than its record's.
startEditOther(c, i) ==
    /\ Enabled(c)
    /\ i \in DOMAIN users[c]
    /\ editingId' = [editingId EXCEPT ![c] = users[c][i].id + 1]
    /\ formData' = [formData EXCEPT ![c] =
                       [name |-> users[c][i].name, email |-> users[c][i].email]]
    /\ ev' = NoEvent
    /\ UNCHANGED << pc, users, loading, error, ops, modal, db, nextId, calls >>

\* onEdit(user)
startEdit(c, i) ==
    /\ Enabled(c)
    /\ i \in DOMAIN users[c]
    /\ editingId' = [editingId EXCEPT ![c] = users[c][i].id]
    /\ formData' = [formData EXCEPT ![c] =
                       [name |-> users[c][i].name, email |-> users[c][i].email]]
    /\ ev' = NoEvent
    /\ UNCHANGED << pc, users, loading, error, ops, modal, db, nextId, calls >>

\* A cancel that would leave edit mode and keep the draft.
cancelEditKeepsDraft(c) ==
    /\ Enabled(c)
    /\ Truthy(editingId[c])
    /\ editingId' = [editingId EXCEPT ![c] = Null]
    /\ ev' = Event("cancel", "none", "ok")
    /\ UNCHANGED << pc, users, formData, loading, error, ops, modal, db, nextId, calls >>

\* onCancel={editingId ? cancelEdit : undefined}
cancelEdit(c) ==
    /\ Enabled(c)
    /\ Truthy(editingId[c])
    /\ editingId' = [editingId EXCEPT ![c] = Null]
    /\ formData' = [formData EXCEPT ![c] = EmptyForm]
    /\ ev' = Event("cancel", "none", "ok")
    /\ UNCHANGED << pc, users, loading, error, ops, modal, db, nextId, calls >>

\* <Alert onClose={() => setError(null)} dismissible> of the web client.
DismissError(c) ==
    /\ pc[c] = "ready"
    /\ c = "web"
    /\ error[c] # NoError
    /\ error' = [error EXCEPT ![c] = NoError]
    /\ ev' = NoEvent
    /\ UNCHANGED << pc, users, formData, editingId, loading, ops, modal, db, nextId, calls >>

(***************************************************************************)
(* The specification.                                                      *)
(***************************************************************************)
OpSlots == 1..MaxInFlight

Next ==
    \E c \in Clients :
        \/ MountEffect(c)
        \/ StrictRemount(c)
        \/ \E i \in OpSlots : ServerHandle(c, i)
        \/ \E i \in OpSlots : Deliver(c, i)
        \/ \E i \in OpSlots, json \in BOOLEAN : Refuse(c, i, json)
        \/ \E i \in OpSlots : TransportFail(c, i)
        \/ \E v \in Names : SetName(c, v)
        \/ \E v \in Emails : SetEmail(c, v)
        \/ Submit(c)
        \/ \E id \in IdSpace : handleDelete(c, id)
        \/ ConfirmDelete(c)
        \/ CloseAlert(c)
        \/ \E i \in 1..MaxId : startEdit(c, i)
        \/ cancelEdit(c)
        \/ DismissError(c)

Spec == Init /\ [][Next]_vars

SpecZero == InitZero /\ [][Next]_vars

\* Every request is answered or fails in the end, and React runs the mount
\* effect (twice under StrictMode) once the component is rendered.
NetworkStep(c) ==
    \E i \in OpSlots :
        \/ ServerHandle(c, i)
        \/ Deliver(c, i)
        \/ \E json \in BOOLEAN : Refuse(c, i, json)
        \/ TransportFail(c, i)

Fairness ==
    \A c \in Clients :
        /\ WF_vars(MountEffect(c))
        /\ WF_vars(StrictRemount(c))
        /\ WF_vars(NetworkStep(c))

SpecLive == Init /\ [][Next]_vars /\ Fairness

\* Both clients are started against the one server.
InitBoth ==
    /\ pc = [c \in Clients |-> "new"]
    /\ users = [c \in Clients |-> << >>]
    /\ formData = [c \in Clients |-> EmptyForm]
    /\ editingId = [c \in Clients |-> Null]
    /\ loading = [c \in Clients |-> FALSE]
    /\ error = [c \in Clients |-> NoError]
    /\ ops = [c \in Clients |-> << >>]
    /\ modal = [c \in Clients |-> NoModal]
    /\ calls = [c \in Clients |-> 0]
    /\ ev = NoEvent
    /\ db \in InitialDbs
    /\ nextId = FirstId + Len(db)

\* The two clients together start at most MaxCallsBoth mutations.
BudgetBoth == calls'["web"] + calls'["mobile"] <= MaxCallsBoth

\* The steps of two users who edit, cancel, submit and delete but do not type.
NextBoth ==
    \E c \in Clients :
        \/ MountEffect(c)
        \/ StrictRemount(c)
        \/ \E i \in OpSlots : ServerHandle(c, i)
        \/ \E i \in OpSlots : Deliver(c, i)
        \/ \E i \in OpSlots, json \in BOOLEAN : Refuse(c, i, json)
        \/ \E i \in OpSlots : TransportFail(c, i)
        \/ Submit(c) /\ BudgetBoth
        \/ \E id \in IdSpace : handleDelete(c, id) /\ BudgetBoth
        \/ ConfirmDelete(c) /\ BudgetBoth
        \/ CloseAlert(c)
        \/ \E i \in 1..MaxId : startEdit(c, i)
        \/ cancelEdit(c)
        \/ DismissError(c)

SpecBoth == InitBoth /\ [][NextBoth]_vars

TypeOK ==
    /\ \A c \in Clients : Len(ops[c]) <= MaxInFlight /\ calls[c] <= MaxCalls
    /\ nextId <= MaxId + 1

(***************************************************************************)
(* Properties.                                                             *)
(***************************************************************************)
\* The mount effect or a control calls a handler of client c.
HandlerCall(c) ==
    \/ MountEffect(c)
    \/ StrictRemount(c)
    \/ Submit(c)
    \/ \E id \in IdSpace : handleDelete(c, id)
    \/ ConfirmDelete(c)

\* The awaited call of the i-th pending handler invocation of c returns or
\* throws, and the handler runs on to its next await or to its end.
Answered(c, i) ==
    \/ Deliver(c, i)
    \/ \E json \in BOOLEAN : Refuse(c, i, json)
    \/ TransportFail(c, i)

\* C1: a handler (loadUsers, handleCreate, handleUpdate, handleDelete) that is
\* called while loading is true does nothing: the pending invocations, and so
\* the requests, stay as they are, and no state of the client changes.
C1_CallWhileBusyIsNoOp ==
    [][\A c \in Clients :
          (loading[c] /\ HandlerCall(c)) =>
              /\ ops'[c] = ops[c]
              /\ users'[c] = users[c]
              /\ formData'[c] = formData[c]
              /\ editingId'[c] = editingId[c]
              /\ loading'[c] = loading[c]
              /\ error'[c] = error[c]]_vars

\* C2: in every reachable state at most one handler invocation is pending, and
\* loading is true exactly when one is.
C2_BusyIffOneInFlight ==
    \A c \in Clients :
        /\ Len(ops[c]) <= 1
        /\ loading[c] <=> Len(ops[c]) = 1

\* C3: a submit, in create or in update mode, of a draft whose name or email
\* is empty after trim() leaves loading false and sends no request.
C3_BlankDraftSendsNothing ==
    [][\A c \in Clients :
          (InvalidDraft(formData[c]) /\ Submit(c)) =>
              /\ ~loading'[c]
              /\ ops'[c] = ops[c]]_vars

\* C4: a submit that the validation at the top of handleCreate or
\* handleUpdate rejects sets error to the validation message and leaves
\* users, formData and editingId as they are.
C4_RejectionSetsError ==
    [][\A c \in Clients :
          (Rejects(c, formData[c]) /\ Submit(c)) =>
              /\ error'[c] = ValidationAlert.msg
              /\ users'[c] = users[c]
              /\ formData'[c] = formData[c]
              /\ editingId'[c] = editingId[c]]_vars

\* C5: when the mutation of a create, update or delete returns, the handler
\* sends one GET, after that response and as its second and last request;
\* when that GET returns, its list is the new value of users; when the
\* mutation throws, the handler ends having sent no GET.
C5_ChainedReload ==
    [][\A c \in Clients, i \in OpSlots :
          (i \in DOMAIN ops[c] /\ ops[c][i].kind \in Mutations /\ Answered(c, i)) =>
              LET op == ops[c][i] IN
              IF op.phase = "mut"
              THEN /\ op.reqs = << Method(op.kind) >>
                   /\ IF Deliver(c, i) /\ ApiResult(c, op).ok
                      THEN /\ Len(ops'[c]) = Len(ops[c])
                           /\ ops'[c][i].phase = "list"
                           /\ ops'[c][i].net = "sent"
                           /\ ops'[c][i].reqs = << Method(op.kind), "GET" >>
                      ELSE ops'[c] = RemoveAt(ops[c], i)
              ELSE /\ op.reqs = << Method(op.kind), "GET" >>
                   /\ op.applied
                   /\ ops'[c] = RemoveAt(ops[c], i)
                   /\ (Deliver(c, i) /\ ApiResult(c, op).ok) =>
                          users'[c] = op.resp.body]_vars

\* A create has run to its end with both its requests answered 2xx and the
\* cache holds the list with the new record.
C5_Witness ==
    \E c \in Clients :
        /\ ev = Event("end", "create", "ok")
        /\ users[c] = db
        /\ Len(db) = 2

\* The handler invocation op, the i-th pending one of c, ends in this step
\* with outcome out.
Ends(c, i, out) ==
    /\ i \in DOMAIN ops[c]
    /\ Answered(c, i)
    /\ ev' = Event("end", ops[c][i].kind, out)

\* The messages with which a list request fails.
ReloadFailures == {MsgFetchUsers, MsgNetwork, MsgJson}

\* What C6 says of client c.
ReloadFailureKeeps(c) ==
    \A i \in OpSlots :
        (Ends(c, i, "listfail") /\ ops[c][i].kind \in Mutations) =>
            LET op == ops[c][i] IN
            /\ error'[c] \in ReloadFailures
            /\ users'[c] = op.pre.users
            /\ op.applied /\ db' = db
            /\ formData'[c] = formData[c]
            /\ editingId'[c] = editingId[c]

\* C6: when the GET that follows a create, update or delete fails, error is
\* the message of that failure and not of the mutation, users is what it was
\* when the handler was called, the server keeps the mutation, and formData
\* and editingId stay as the reset left them.
C6_ReloadFailure ==
    [][\A c \in Clients : ReloadFailureKeeps(c)]_vars

\* What C7 says of client c.
CreateRoundTrip(c) ==
    \A i \in OpSlots :
        (Ends(c, i, "ok") /\ ops[c][i].kind = "create"
                          /\ ~InvalidDraft(ops[c][i].data)) =>
            LET op == ops[c][i] IN
            /\ \E id \in IdSpace \ Ids(op.dbAt) :
                  users'[c] = Append(op.dbAt,
                      [id |-> id, name |-> op.data.name, email |-> op.data.email])
            /\ formData'[c] = EmptyForm
            /\ editingId'[c] = Null

\* C7: when a create of a valid draft d ends with both requests answered 2xx,
\* users is the collection the server held before the create followed by one
\* record with d's name and email and an identifier the collection did not
\* have, formData is empty and editingId is null.
C7_CreateRoundTrip ==
    [][\A c \in Clients : CreateRoundTrip(c)]_vars

\* The update op was submitted from startEdit on a record of the cache and
\* with a draft that differs from it.
EditedCached(op) ==
    \E j \in DOMAIN op.pre.users :
        /\ op.pre.users[j].id = op.id
        /\ op.data # [name |-> op.pre.users[j].name, email |-> op.pre.users[j].email]

\* What C8 says of client c.
UpdateRoundTrip(c) ==
    \A i \in OpSlots :
        (Ends(c, i, "ok") /\ ops[c][i].kind = "update"
                          /\ EditedCached(ops[c][i])) =>
            LET op == ops[c][i] IN
            /\ users'[c] = Replaced(op.dbAt, op.id, op.data)
            /\ HasId(users'[c], op.id)
            /\ formData'[c] = EmptyForm
            /\ editingId'[c] = Null

\* C8: when an update of a cached record r with a changed draft ends with both
\* requests answered 2xx, the entry of users with r's identifier has the draft's name and email,
\* the other entries are those the server held, formData is empty and
\* editingId is null.
C8_UpdateRoundTrip ==
    [][\A c \in Clients : UpdateRoundTrip(c)]_vars

\* What C9 says of client c.
DeleteRoundTrip(c) ==
    \A i \in OpSlots :
        (Ends(c, i, "ok") /\ ops[c][i].kind = "delete") =>
            LET op == ops[c][i] IN
            /\ HasId(op.dbAt, op.id)
            /\ users'[c] = Without(op.dbAt, op.id)

\* C9: when a delete of id ends with both requests answered 2xx, users is the
\* collection the server held before the delete without the record of that
\* id, the other records as they were and in their order.
C9_DeleteRoundTrip ==
    [][\A c \in Clients : DeleteRoundTrip(c)]_vars

\* What C10 says of client c.
FailurePreserves(c) ==
    \A i \in OpSlots :
        (Ends(c, i, "mutfail") /\ ops[c][i].kind \in {"create", "update"}) =>
            LET op == ops[c][i] IN
            /\ formData'[c] = op.pre.formData
            /\ editingId'[c] = op.pre.editingId
            /\ users'[c] = op.pre.users
            /\ error'[c] # NoError
            /\ ~loading'[c]

\* C10: when the POST or PUT of a submit fails, formData, editingId and users
\* are what they were when the handler was called, error is set and loading
\* is false.
C10_FailurePreservesDraft ==
    [][\A c \in Clients : FailurePreserves(c)]_vars

\* The i-th pending invocation of c receives a 2xx answer to its list request.
ListArrives(c, i) ==
    /\ i \in DOMAIN ops[c]
    /\ ops[c][i].phase = "list"
    /\ Deliver(c, i)
    /\ ops[c][i].resp.ok

\* C11: users changes only in a step in which a list request is answered
\* 2xx, and to the list of that answer; the start of a handler, a mutation's
\* answer, startEdit, cancelEdit and the inputs leave it as it is.
C11_CacheOnlyFromList ==
    [][\A c \in Clients :
          users'[c] # users[c] =>
              \E i \in OpSlots :
                  /\ ListArrives(c, i)
                  /\ ops[c][i].resp.json
                  /\ users'[c] = ops[c][i].resp.body]_vars

\* The first load has put the server's record into the cache.
C11_Witness ==
    \E c \in Clients :
        /\ ev = Event("end", "load", "ok")
        /\ users[c] = << SeedUser >>

\* C12: when a loadUsers ends, alone or called by a handler after its
\* mutation, loading is false; if its request was answered 2xx, users is the
\* list of the answer; if it failed, error is set and users is left as it is.
C12_LoadOutcome ==
    [][\A c \in Clients, i \in OpSlots :
          (i \in DOMAIN ops[c] /\ ops[c][i].phase = "list" /\ Answered(c, i)) =>
              /\ ~loading'[c]
              /\ IF ListArrives(c, i) /\ ops[c][i].resp.json
                 THEN users'[c] = ops[c][i].resp.body
                 ELSE /\ error'[c] # NoError
                      /\ users'[c] = users[c]]_vars

\* A load has failed over a cache that holds a record: the record is still
\* there, the message is shown and loading is false.
C12_Witness ==
    \E c \in Clients :
        /\ ev.type = "end" /\ ev.out = "listfail"
        /\ users[c] = << SeedUser >>
        /\ error[c] \in ReloadFailures
        /\ ~loading[c]

\* A handler of c starts in this step: one more invocation is pending.
Starts(c) == Len(ops'[c]) > Len(ops[c])

\* A handler of c goes on from its mutation to loadUsers() in this step.
Reloads(c) ==
    \E i \in OpSlots :
        /\ i \in DOMAIN ops[c] /\ ops[c][i].phase = "mut"
        /\ Answered(c, i)
        /\ Len(ops'[c]) = Len(ops[c])

\* An awaited call of c throws in this step.
Fails(c) ==
    \E i \in OpSlots : Ends(c, i, "listfail") \/ Ends(c, i, "mutfail")

\* error is null when a handler or a chained loadUsers starts, is a message
\* when a call throws, and changes in no other step but a dismissal.
ErrorSlotSteps(c) ==
    /\ (Starts(c) \/ Reloads(c)) => error'[c] = NoError
    /\ Fails(c) => error'[c] # NoError
    /\ error'[c] # error[c] => (Starts(c) \/ Reloads(c) \/ Fails(c) \/ DismissError(c))

\* error is null when a create, update or delete ends with both its requests
\* answered 2xx.
ErrorNullAfterSuccess(c) ==
    \A i \in OpSlots :
        (Ends(c, i, "ok") /\ ops[c][i].kind \in Mutations) => error'[c] = NoError

\* C13: error is set to null at the start of every load, create, update and
\* delete, is set to a message when the operation fails, keeps its value in
\* every other step but a dismissal, and so is null when an operation ends
\* whose mutation and reload both succeeded.
C13_ErrorSlot ==
    [][\A c \in Clients : ErrorSlotSteps(c) /\ ErrorNullAfterSuccess(c)]_vars

\* C14: when a list, create, update or delete request is answered with a
\* non-2xx status, whether or not the body is JSON, error is afterwards the
\* fixed message of that request.
C14_Non2xxGivesLabel ==
    [][\A c \in Clients, i \in OpSlots, json \in BOOLEAN :
          Refuse(c, i, json) => error'[c] = Label(ops[c][i])]_vars

\* C15 as stated: when the request of an operation itself throws, error is
\* afterwards the fixed message of that request, as after a non-2xx answer.
C15_TransportGivesLabel ==
    [][\A c \in Clients, i \in OpSlots :
          TransportFail(c, i) => error'[c] = Label(ops[c][i])]_vars

\* C15 as the handlers have it: when the request of an operation itself
\* throws, error is afterwards the message of the thrown error, which is
\* none of the fixed messages.
C15_TransportGivesThrownMessage ==
    [][\A c \in Clients, i \in OpSlots :
          TransportFail(c, i) =>
              /\ error'[c] = MsgNetwork
              /\ error'[c] \notin {MsgFetchUsers, MsgCreate, MsgUpdate, MsgDelete}]_vars

\* The request of a create, update or delete has thrown and the message of
\* the thrown error is shown.
C15_Witness ==
    \E c \in Clients :
        /\ ev.type = "end" /\ ev.out = "mutfail"
        /\ error[c] = MsgNetwork

\* What C16 says of startEdit on the j-th record of the cache of c.
StartEditSets(c, j) ==
    startEdit(c, j) =>
        /\ editingId'[c] = users[c][j].id
        /\ formData'[c] = [name |-> users[c][j].name, email |-> users[c][j].email]

\* What C16 says of a submit of a valid draft while editingId is an identifier.
SubmitUpdates(c) ==
    (editingId[c] # Null /\ ~InvalidDraft(formData[c]) /\ Submit(c)) =>
        /\ Len(ops'[c]) = Len(ops[c]) + 1
        /\ LET op == ops'[c][Len(ops'[c])] IN
              /\ op.kind = "update"
              /\ op.reqs = << "PUT" >>
              /\ op.id = editingId[c]
              /\ op.data = formData[c]

\* C16: startEdit on a record of the cache, whatever its identifier, sets
\* editingId to that identifier and formData to the record's name and email,
\* and a submit of a valid draft while editingId is an identifier sends the
\* PUT for that identifier and the draft, never a POST.
C16_EditModeForEveryId ==
    [][\A c \in Clients :
          /\ \A j \in 1..(MaxId + 1) : StartEditSets(c, j)
          /\ SubmitUpdates(c)]_vars

\* A delete of the record that c is editing, from the click to the end of its
\* reload, changes neither editingId nor formData.
DeleteKeepsEdit(c) ==
    LET kept == editingId'[c] = editingId[c] /\ formData'[c] = formData[c] IN
    /\ handleDelete(c, editingId[c]) => kept
    /\ (modal[c].id = editingId[c] /\ ConfirmDelete(c)) => kept
    /\ \A i \in OpSlots :
          (/\ i \in DOMAIN ops[c]
           /\ ops[c][i].kind = "delete"
           /\ ops[c][i].id = editingId[c]
           /\ Answered(c, i)) => kept

\* editingId of c is the identifier of a record the server no longer has.
EditsMissing(c) == editingId[c] # Null /\ ~HasId(db, editingId[c])

\* A submit of a valid draft then sends the PUT for that identifier.
SubmitOnMissing(c) ==
    (EditsMissing(c) /\ ~InvalidDraft(formData[c]) /\ Submit(c)) =>
        /\ Len(ops'[c]) = Len(ops[c]) + 1
        /\ LET op == ops'[c][Len(ops'[c])] IN
              /\ op.kind = "update"
              /\ op.reqs = << "PUT" >>
              /\ op.id = editingId[c]
              /\ ~HasId(db', op.id)

\* The PUT for an identifier the server does not have is answered not-found,
\* never 2xx, and the handler then sets error and keeps the form and the cache.
NotFoundKeeps(c) ==
    \A i \in OpSlots :
        (/\ i \in DOMAIN ops[c]
         /\ ops[c][i].kind = "update"
         /\ ops[c][i].phase = "mut"
         /\ ops[c][i].net = "sent"
         /\ ~HasId(db, ops[c][i].id)) =>
            /\ ~Serve(ops[c][i]).resp.ok
            /\ ~ServerHandle(c, i)
            /\ \A json \in BOOLEAN :
                  Refuse(c, i, json) =>
                      /\ error'[c] = MsgUpdate
                      /\ formData'[c] = formData[c]
                      /\ editingId'[c] = editingId[c]
                      /\ users'[c] = users[c]
                      /\ ops'[c] = RemoveAt(ops[c], i)

\* C17: the delete of the record editingId refers to leaves editingId and
\* formData as they are; a submit that follows sends the PUT for the missing
\* identifier, the server answers not-found, and the handler sets error and
\* leaves formData, editingId and users as they are.
C17_DeleteKeepsEditTarget ==
    [][\A c \in Clients :
          DeleteKeepsEdit(c) /\ SubmitOnMissing(c) /\ NotFoundKeeps(c)]_vars

\* C18: in a step that takes editingId from null to an identifier, the
\* identifier is that of a record of users, before and after the step.
C18_EditTargetFromCache ==
    [][\A c \in Clients :
          (editingId[c] = Null /\ editingId'[c] # Null) =>
              /\ HasId(users'[c], editingId'[c])
              /\ users'[c] = users[c]]_vars

\* Edit mode has been entered for the record the cache holds.
C18_Witness ==
    \E c \in Clients :
        /\ editingId[c] = SeedUser.id
        /\ users[c] = << SeedUser >>
        /\ ops[c] = << >>

\* No handler invocation of c awaits a response: the controller is idle.
Idle(c) == ops[c] = << >>

\* startEdit or cancelEdit of c takes effect in this step.
EditStep(c) ==
    \/ \E j \in 1..(MaxId + 1) : startEdit(c, j)
    \/ cancelEdit(c)

\* What C19 says of client c.
EditOnlyWhileIdle(c) == EditStep(c) => (~loading[c] /\ Idle(c))

\* C19: startEdit and cancelEdit change editingId and formData only while
\* the controller is idle: loading is false and no operation is in flight.
C19_EditOnlyWhileIdle ==
    [][\A c \in Clients : EditOnlyWhileIdle(c)]_vars

\* C20: cancelEdit sets editingId to null and formData to the empty draft,
\* whatever they were, sends no request, and leaves users, loading and error
\* as they are.
C20_CancelEditFrame ==
    [][\A c \in Clients :
          cancelEdit(c) =>
              /\ editingId'[c] = Null
              /\ formData'[c] = EmptyForm
              /\ ops' = ops /\ db' = db
              /\ users'[c] = users[c]
              /\ loading'[c] = loading[c]
              /\ error'[c] = error[c]]_vars

\* An edit has been cancelled while a message was shown: the form is empty
\* and in create mode, the message and the cache are still there.
C20_Witness ==
    \E c \in Clients :
        /\ ev = Event("cancel", "none", "ok")
        /\ editingId[c] = Null
        /\ formData[c] = EmptyForm
        /\ error[c] # NoError
        /\ users[c] = << SeedUser >>

\* A handleDelete invocation of c sends its DELETE in this step.
DeleteStarts(c) == Starts(c) /\ ops'[c][Len(ops'[c])].kind = "delete"

\* The step leaves the requests and the state of c as they are, loading false.
NothingHappens(c) ==
    /\ ops'[c] = ops[c]
    /\ ~loading[c] /\ ~loading'[c]
    /\ users'[c] = users[c]
    /\ formData'[c] = formData[c]
    /\ editingId'[c] = editingId[c]
    /\ error'[c] = error[c]

\* What C21 says of client c.
DeleteAfterConfirm(c) ==
    /\ DeleteStarts(c) => (modal[c].kind = "confirm" /\ ConfirmDelete(c))
    /\ \A id \in IdSpace : handleDelete(c, id) => NothingHappens(c)
    /\ (modal[c].kind = "confirm" /\ CloseAlert(c)) => NothingHappens(c)

\* C21: on both clients the DELETE is sent only in the step in which the
\* user accepts the confirmation; the press of the delete button, and the
\* cancellation of the confirmation, send nothing, leave loading false and
\* change no state.
C21_DeleteAfterConfirmation ==
    [][\A c \in Clients : DeleteAfterConfirm(c)]_vars

\* The awaited call of the i-th pending invocation of c throws in this step.
Throws(c, i) ==
    /\ i \in DOMAIN ops[c]
    /\ \/ \E json \in BOOLEAN : Refuse(c, i, json)
       \/ TransportFail(c, i)

\* A request of c is sent in this step.
Sends(c) ==
    \/ Starts(c)
    \/ /\ Len(ops'[c]) = Len(ops[c])
       /\ \E i \in DOMAIN ops[c] : Len(ops'[c][i].reqs) > Len(ops[c][i].reqs)

\* An invocation leaves the pending ones only by running to its end, which
\* sets loading to false; a call that throws ends its invocation and sends
\* nothing; a request is sent only by a handler that was called or by the
\* loadUsers() that follows a mutation that returned.
RunsToCompletion(c) ==
    /\ Len(ops'[c]) < Len(ops[c]) =>
          \E i \in OpSlots :
              Answered(c, i) /\ ops'[c] = RemoveAt(ops[c], i) /\ ~loading'[c]
    /\ \A i \in OpSlots : Throws(c, i) => (ops'[c] = RemoveAt(ops[c], i) /\ ~Sends(c))
    /\ Sends(c) =>
          \/ HandlerCall(c)
          \/ \E i \in OpSlots :
                /\ i \in DOMAIN ops[c] /\ ops[c][i].phase = "mut"
                /\ Deliver(c, i)

\* C22: if every request completes, every started load, create, update and
\* delete ends and loading is false again; no invocation is dropped before
\* its end, and a failure sends no request: the next one is sent by the next
\* call of a handler.
C22_OperationsTerminate ==
    /\ (\E c \in Clients : ops[c] # << >>)
           ~> (\A c \in Clients : ops[c] = << >> /\ ~loading[c])
    /\ [][\A c \in Clients : RunsToCompletion(c)]_vars

\* A mutation has failed: no invocation is pending, loading is false and the
\* message is shown.
C22_Witness ==
    \E c \in Clients :
        /\ ev.type = "end" /\ ev.out = "mutfail" /\ ev.kind \in Mutations
        /\ ops[c] = << >>
        /\ ~loading[c]
        /\ error[c] # NoError
        /\ calls[c] > 0

\* What C23 says of client c: while a create, update or delete whose
\* mutation has returned awaits its loadUsers(), loading is true.
BusyThroughReload(c) ==
    \A i \in DOMAIN ops[c] :
        (ops[c][i].kind \in Mutations /\ ops[c][i].phase = "list") => loading[c]

\* C23: from the answer to the mutation of a create, update or delete until
\* its chained loadUsers() has ended there is no state with loading false.
C23_BusyUntilReloadEnds ==
    \A c \in Clients : BusyThroughReload(c)

\* The other of the two clients.
Other(c) == CHOOSE d \in Clients : d # c

\* What C24 says of a step of client c: where the code of a controller
\* decides (whether a submit sends its request, whether the press of a delete
\* button sends the DELETE, what a call returns or throws for a response),
\* the other controller's code decides the same, so that the requests and the
\* states that follow are the same.
SameDecisions(c) ==
    /\ Submit(c) =>
          (Starts(c) <=> (/\ ~Rejects(Other(c), formData[c])
                          /\ ~FormBlocks(Other(c), formData[c])))
    /\ \A id \in IdSpace :
          handleDelete(c, id) => (DeleteStarts(c) <=> ~ConfirmsFirst(Other(c)))
    /\ \A i \in OpSlots :
          /\ (i \in DOMAIN ops[c] /\ Deliver(c, i)) =>
                ApiResult(c, ops[c][i]) = ApiResult(Other(c), ops[c][i])
          /\ \A json \in BOOLEAN :
                (i \in DOMAIN ops[c] /\ Refuse(c, i, json)) =>
                    LET op == [ops[c][i] EXCEPT !.resp = Response(FALSE, json, NoBody)]
                    IN  ApiResult(c, op) = ApiResult(Other(c), op)

\* C24: the web and the mobile controller are one state machine: on the same
\* intents and the same responses they send the same requests and go through
\* the same users, formData, editingId, loading and error.
C24_SameStateMachine ==
    [][\A c \in Clients : SameDecisions(c)]_vars

\* The server answers the list request of the i-th pending invocation of c.
ListServed(c, i) ==
    /\ i \in DOMAIN ops[c]
    /\ ops[c][i].phase = "list"
    /\ ServerHandle(c, i)

\* What C25 says of client c.  The server answers a list request with its
\* collection as it is, in its order, and does not change it; the list that
\* arrives replaces the cache.  So a list served from the collection the
\* previous list was served from, which is then the list the cache holds,
\* leaves the cache as it is.
ReloadIdempotent(c) ==
    \A i \in OpSlots :
        /\ ListServed(c, i) =>
              /\ ops'[c][i].resp.ok /\ ops'[c][i].resp.json
              /\ ops'[c][i].resp.body = db
              /\ db' = db
        /\ ListArrives(c, i) =>
              /\ users'[c] = ops[c][i].resp.body
              /\ ops[c][i].resp.body = users[c] => users'[c] = users[c]

\* C25: two successful loads between which the server's collection is the
\* same leave users with the same sequence of records both times.
C25_ReloadIdempotent ==
    [][\A c \in Clients : ReloadIdempotent(c)]_vars

\* A second load has succeeded over a collection that is what it was at the
\* first (the update between them wrote the record's own values): the cache
\* holds the same record again.
C25_Witness ==
    \E c \in Clients :
        /\ ev = Event("end", "update", "ok")
        /\ calls[c] = 1
        /\ db = << SeedUser >>
        /\ users[c] = << SeedUser >>

\* What C26 says of client c: as constructed its cache is empty, its draft
\* empty, editingId null, loading false and error null; the one step it then
\* takes is the mount effect, which sends the list request; and when a load
\* of the mount effect ends with a 2xx answer, users is the server's
\* collection.
StartsEmpty(c) ==
    pc[c] = "new" =>
        /\ users[c] = << >>
        /\ formData[c] = EmptyForm
        /\ editingId[c] = Null
        /\ ~loading[c]
        /\ error[c] = NoError
        /\ ops[c] = << >>

FirstLoad(c) ==
    /\ (pc[c] = "new" /\ pc'[c] # "new") =>
          /\ MountEffect(c)
          /\ loading'[c]
          /\ Len(ops'[c]) = 1
          /\ ops'[c][1].kind = "load" /\ ops'[c][1].reqs = << "GET" >>
    /\ \A i \in OpSlots :
          (ListArrives(c, i) /\ ops[c][i].kind = "load") => users'[c] = db'

\* C26: at start-up users is empty, formData empty, editingId null, loading
\* false and error null; a load is started by the mount effect, not by the
\* user, and once it has succeeded users is the server's collection.
C26_StartUp ==
    /\ [](\A c \in Clients : StartsEmpty(c))
    /\ [][\A c \in Clients : FirstLoad(c)]_vars

\* Client c takes a step: a handler is called, a request of c is handled or
\* settles, or its user edits, cancels or closes a message.
ClientStep(c) ==
    \/ HandlerCall(c)
    \/ NetworkStep(c)
    \/ \E v \in Names : SetName(c, v)
    \/ \E v \in Emails : SetEmail(c, v)
    \/ \E j \in 1..MaxId : startEdit(c, j)
    \/ cancelEdit(c)
    \/ CloseAlert(c)
    \/ DismissError(c)

\* The state of client d is left as it is.
Untouched(d) ==
    /\ users'[d] = users[d]
    /\ formData'[d] = formData[d]
    /\ editingId'[d] = editingId[d]
    /\ loading'[d] = loading[d]
    /\ error'[d] = error[d]
    /\ ops'[d] = ops[d]
    /\ modal'[d] = modal[d]

\* C27: with both clients on one server, a step of one client leaves every
\* state variable of the other as it is, and the cache of a client changes
\* only when a list request of that client is answered, alone or after its
\* own mutation.
C27_ClientsShareNothing ==
    [][\A c \in Clients :
          /\ ClientStep(c) => Untouched(Other(c))
          /\ users'[c] # users[c] => \E i \in OpSlots : ListArrives(c, i)]_vars

\* One client has deleted the record and shows the empty list; the other,
\* idle, still shows the record.
C27_Witness ==
    \E c \in Clients :
        /\ ev = Event("end", "delete", "ok")
        /\ calls[c] = 1 /\ users[c] = << >> /\ db = << >>
        /\ pc[Other(c)] = "ready"
        /\ ops[Other(c)] = << >>
        /\ users[Other(c)] = << SeedUser >>

\* What C28 says of client c, the only one running, in the states a load
\* that succeeded has just led to: if loading is false, users is the
\* server's collection.
CacheIsServer(c) ==
    (/\ pc[c] = "ready"
     /\ ev.type = "end" /\ ev.out = "ok"
     /\ ~loading[c]) => users[c] = db

\* C28: with one client and no other writer, whenever loading is false and
\* the most recent load, alone or chained, has succeeded, users equals the
\* server's collection.
C28_CacheEqualsServer ==
    \A c \in Clients : CacheIsServer(c)

\* What C29 says of client c.
DeleteFailureKeeps(c) ==
    \A i \in OpSlots :
        (Ends(c, i, "mutfail") /\ ops[c][i].kind = "delete") =>
            LET op == ops[c][i] IN
            /\ op.reqs = << "DELETE" >>
            /\ ops'[c] = RemoveAt(ops[c], i)
            /\ users'[c] = op.pre.users
            /\ formData'[c] = op.pre.formData
            /\ editingId'[c] = op.pre.editingId
            /\ error'[c] # NoError
            /\ ~loading'[c]

\* C29: when the DELETE fails, the handler sends no list request, users,
\* formData and editingId are what they were when the delete was called,
\* error is set and loading is false again.
C29_DeleteFailureKeepsState ==
    [][\A c \in Clients : DeleteFailureKeeps(c)]_vars

\* C30: on the mobile client, whenever the "Delete" button of a pending
\* confirmation is pressed, loading is false and no handler invocation is in
\* flight, though the callback does not read loading.
C30_ConfirmOnlyWhileIdle ==
    [][ConfirmDelete("mobile") =>
          /\ ~loading["mobile"]
          /\ ops["mobile"] = << >>
          /\ loading'["mobile"]
          /\ Len(ops'["mobile"]) = 1]_vars

\* A confirmation has been accepted on the mobile client: its DELETE is the
\* one request in flight.
C30_Witness ==
    /\ pc["mobile"] = "ready"
    /\ modal["mobile"] = NoModal
    /\ loading["mobile"]
    /\ Len(ops["mobile"]) = 1
    /\ ops["mobile"][1].kind = "delete"
    /\ ops["mobile"][1].reqs = << "DELETE" >>
    /\ ops["mobile"][1].net = "sent"

====
